---- MODULE Spec2Model ----
(***************************************************************************)
(* Model of nbodykit/distributedarray.py: LinearTopology (heads, tails,    *)
(* prev, next) and DistributedArray (unique_labels, bincount) over an MPI  *)
(* communicator of `size` ranks, each rank holding one local chunk.        *)
(*                                                                         *)
(* Python lists and numpy arrays are sequences; Python index i is TLA+     *)
(* index i+1.  Ranks are 0-based as in the source.                         *)
(***************************************************************************)
EXTENDS Integers, Sequences, FiniteSets, TLC

\* ---- bounds of the model
MaxRanks == 4      \* comm.size ranges over 1..MaxRanks
MaxTotal == 5      \* total number of items over all ranks
MaxVal   == 1      \* items are integers 0..MaxVal
MaxProcs == 3      \* comm.size ranges over 1..MaxProcs in SpecRanks
MaxItems == 2      \* total number of items over all ranks in SpecRanks
MaxItem  == 1      \* items are integers 0..MaxItem in SpecRanks
MaxMutRanks == 2   \* comm.size ranges over 1..MaxMutRanks in SpecMut

VARIABLES
    size,     \* comm.size
    local,    \* local[r]: self.local on rank r, r \in 0..size-1
    op,       \* the method all ranks called last ("init": none yet)
    ret,      \* ret[r]: what the method returned on rank r
    meth,     \* meth[r]: the method rank r is running ("none": not called)
    pc,       \* pc[r]: "idle", the allgather rank r is blocked in, or "done"
    sendbuf,  \* sendbuf[r]: the value rank r passed to that allgather
    frame,    \* frame[r]: the local variables of the method on rank r
    ncoll,    \* ncoll[r]: the number of allgathers rank r has entered
    tlocal,   \* tlocal[r]: self.topology.local on rank r (lines 14, 123)
    alias     \* alias[r]: self.topology.local is the object self.local

rankvars == <<meth, pc, sendbuf, frame, ncoll>>

vars == <<size, local, op, ret, meth, pc, sendbuf, frame, ncoll, tlocal, alias>>

\* ---- the EmptyRank singleton; array items are naturals, so it is no item
EmptyRank == -1

Values == 0..MaxVal

Ranks(n) == 0..(n - 1)

\* ======================================================================
\* Helpers standing for Python / numpy / MPI primitives
\* ======================================================================

RECURSIVE SumSeq(_)
\* Python sum(list)
SumSeq(s) == IF s = <<>> THEN 0 ELSE Head(s) + SumSeq(Tail(s))

\* max of a non-empty sequence of integers
MaxOf(s) == CHOOSE m \in {s[i] : i \in DOMAIN s} : \A i \in DOMAIN s : s[i] <= m

RECURSIVE SortedSeqOf(_)
\* the elements of a finite set of integers in increasing order
SortedSeqOf(S) ==
    IF S = {} THEN <<>>
    ELSE LET m == CHOOSE x \in S : \A y \in S : x <= y
         IN  <<m>> \o SortedSeqOf(S \ {m})

\* comm.allgather(value): contrib[r] is what rank r passes; every rank gets
\* the list of all contributions in rank order
allgather(contrib) ==
    [i \in 1..Cardinality(DOMAIN contrib) |-> contrib[i - 1]]

\* numpy.unique(a, return_inverse=True)[0]: the sorted distinct values
numpy_unique(a) == SortedSeqOf({a[i] : i \in DOMAIN a})

\* numpy.unique(a, return_inverse=True)[1]: for each item the 0-based index
\* of its value among the sorted distinct values
numpy_inverse(a) ==
    LET junk == numpy_unique(a)
    IN  [i \in DOMAIN a |-> (CHOOSE j \in DOMAIN junk : junk[j] = a[i]) - 1]

\* numpy.bincount(x): x non-negative integers; dense counts 0..max(x),
\* and the empty array for empty x
numpy_bincount(x) ==
    IF x = <<>> THEN <<>>
    ELSE [j \in 1..(MaxOf(x) + 1) |-> Cardinality({i \in DOMAIN x : x[i] = j - 1})]

\* ======================================================================
\* LinearTopology
\* ======================================================================

\* heads() passing an item value, 0, for an empty chunk
head_item_zero(chunk) == IF Len(chunk) > 0 THEN chunk[1] ELSE 0

\* heads(): lines 27-29, the value a rank passes to allgather
head_item(chunk) == IF Len(chunk) > 0 THEN chunk[1] ELSE EmptyRank

\* tails(): lines 42-44
tail_item(chunk) == IF Len(chunk) > 0 THEN chunk[Len(chunk)] ELSE EmptyRank

\* LinearTopology.heads on the chunks loc: the gathered list
heads(loc) == allgather([r \in DOMAIN loc |-> head_item(loc[r])])

\* LinearTopology.tails
tails(loc) == allgather([r \in DOMAIN loc |-> tail_item(loc[r])])

RECURSIVE carry(_, _, _)
\* the loop of prev() (lines 66-71) and of next() (lines 93-98) from list
\* position i on, `old` being oldtail / oldhead: the items appended
carry(list, i, old) ==
    IF i > Len(list) THEN <<>>
    ELSE IF list[i] = EmptyRank
         THEN <<old>> \o carry(list, i + 1, old)
         ELSE <<list[i]>> \o carry(list, i + 1, list[i])

\* prev() without the carried oldtail: the tail of the rank right before
prev_adjacent(tailsList, rank) ==
    LET tls == <<EmptyRank>> \o tailsList
    IN  tls[rank + 1]

\* LinearTopology.prev on rank `rank`, given what self.tails() returned
prev(tailsList, rank) ==
    LET tls == <<EmptyRank>> \o carry(tailsList, 1, EmptyRank)
    IN  tls[rank + 1]

\* next() reading the slot of its own rank instead of the one after it
next_own_slot(headsList, rank) ==
    LET hds == carry(headsList, 1, EmptyRank) \o <<EmptyRank>>
    IN  hds[rank + 1]

\* LinearTopology.next on rank `rank`, given what self.heads() returned
next(headsList, rank) ==
    LET hds == carry(headsList, 1, EmptyRank) \o <<EmptyRank>>
    IN  hds[(rank + 1) + 1]

\* ======================================================================
\* DistributedArray.unique_labels
\* ======================================================================

\* Nunique without the test for a spill-over into the next rank
Nunique_no_spill(chunk, nxt) ==
    IF Len(chunk) = 0 THEN 0 ELSE Len(numpy_unique(chunk))

\* lines 153-163: the number of distinct values a rank contributes to the
\* labels of the ranks after it; nxt is what self.topology.next() returned
Nunique(chunk, nxt) ==
    LET junk == numpy_unique(chunk)
    IN  IF Len(chunk) = 0 THEN 0
        ELSE IF nxt = chunk[Len(chunk)] THEN Len(junk) - 1
             ELSE Len(junk)

\* the shift summed over the ranks up to and including this one
label_shift_inclusive(NuniqueList, rank) == SumSeq(SubSeq(NuniqueList, 1, rank + 1))

\* line 165: sum(self.comm.allgather(Nunique)[:self.comm.rank])
label_shift(NuniqueList, rank) == SumSeq(SubSeq(NuniqueList, 1, rank))

\* lines 153 and 165: the local inverse indices shifted by the ranks before
labels(chunk, NuniqueList, rank) ==
    LET label == numpy_inverse(chunk)
    IN  [i \in DOMAIN chunk |-> label[i] + label_shift(NuniqueList, rank)]

\* unique_labels() on rank `rank` when every rank calls it on the chunks loc
unique_labels(loc, rank) ==
    LET hds         == heads(loc)
        NuniqueList == allgather([q \in DOMAIN loc |-> Nunique(loc[q], next(hds, q))])
    IN  labels(loc[rank], NuniqueList, rank)

\* ======================================================================
\* DistributedArray.bincount
\* ======================================================================

\* lines 193-199; prv is what self.topology.prev() returned
offset(chunk, prv) ==
    IF prv # EmptyRank
    THEN IF Len(chunk) > 0 /\ prv # chunk[1] THEN chunk[1] ELSE prv
    ELSE 0

\* line 201: N = numpy.bincount(self.local - offset)
local_counts(chunk, prv) ==
    numpy_bincount([i \in DOMAIN chunk |-> chunk[i] - offset(chunk, prv)])

RECURSIVE add_tails_stop(_, _, _, _, _)
\* the backward loop leaving at the first rank whose tail does not match
add_tails_stop(n0, first, tailsList, tailsN, i) ==
    IF i < 0 \/ tailsList[i + 1] # first THEN n0
    ELSE add_tails_stop(n0 + tailsN[i + 1], first, tailsList, tailsN, i - 1)

RECURSIVE add_tails(_, _, _, _, _)
\* lines 213-215 from rank index i downwards: the value of N[0]
add_tails(n0, first, tailsList, tailsN, i) ==
    IF i < 0 THEN n0
    ELSE add_tails(IF tailsList[i + 1] = first THEN n0 + tailsN[i + 1] ELSE n0,
                   first, tailsList, tailsN, i - 1)

RECURSIVE add_heads_stop(_, _, _, _, _)
\* the forward loop leaving at the first rank whose head does not match
add_heads_stop(nlast, last, headsList, headsN, i) ==
    IF i >= Len(headsList) \/ headsList[i + 1] # last THEN nlast
    ELSE add_heads_stop(nlast + headsN[i + 1], last, headsList, headsN, i + 1)

RECURSIVE add_heads(_, _, _, _, _)
\* lines 216-218 from rank index i upwards: the value of N[-1]
add_heads(nlast, last, headsList, headsN, i) ==
    IF i >= Len(headsList) THEN nlast
    ELSE add_heads(IF headsList[i + 1] = last THEN nlast + headsN[i + 1] ELSE nlast,
                   last, headsList, headsN, i + 1)

\* lines 212-218: N after the two loops
fixup(N, chunk, headsList, tailsList, headsN, tailsN, rank) ==
    IF Len(N) > 0
    THEN LET N1 == [N EXCEPT ![1] =
                        add_tails(N[1], chunk[1], tailsList, tailsN, rank - 1)]
         IN  [N1 EXCEPT ![Len(N1)] =
                        add_heads(N1[Len(N1)], chunk[Len(chunk)], headsList, headsN, rank + 1)]
    ELSE N

\* bincount(local=flag) on rank `rank` when every rank calls it on loc
bincount(loc, rank, flag) ==
    LET tls    == tails(loc)
        Nof(q) == local_counts(loc[q], prev(tls, q))
        headsN == allgather([q \in DOMAIN loc |-> head_item(Nof(q))])
        tailsN == allgather([q \in DOMAIN loc |-> tail_item(Nof(q))])
    IN  IF flag THEN Nof(rank)
        ELSE fixup(Nof(rank), loc[rank], heads(loc), tls, headsN, tailsN, rank)

\* ======================================================================
\* The arrays the program runs on: a globally sorted sequence of items
\* (the state after sort() and projection to the key column) striped along
\* the ranks, any rank possibly empty
\* ======================================================================

RECURSIVE run_from(_, _)
\* the sorted sequence holding c[v] items of value v, for the values from v on
run_from(c, v) ==
    IF v > MaxVal THEN <<>>
    ELSE [i \in 1..c[v] |-> v] \o run_from(c, v + 1)

\* the sorted sequences of at most `total` items out of 0..maxval
SortedSeqs(maxval, total) ==
    { run_from([v \in Values |-> IF v <= maxval THEN d[v] ELSE 0], 0) :
          d \in { e \in [0..maxval -> 0..total] :
                      SumSeq([i \in 1..(maxval + 1) |-> e[i - 1]]) <= total } }

\* the ways to cut a sequence of length len into n consecutive chunks
Cuts(n, len) ==
    { k \in [1..(n - 1) -> 0..len] : \A j \in 1..(n - 2) : k[j] <= k[j + 1] }

\* the chunks of g under the cut points k
striped(g, k, n) ==
    LET at(j) == IF j = 0 THEN 0 ELSE IF j = n THEN Len(g) ELSE k[j]
    IN  [r \in Ranks(n) |-> SubSeq(g, at(r) + 1, at(r + 1))]

\* the arrays on n ranks of at most `total` items out of 0..maxval
ArraysOf(n, maxval, total) ==
    UNION { { striped(g, k, n) : k \in Cuts(n, Len(g)) } : g \in SortedSeqs(maxval, total) }

Arrays(n) == ArraysOf(n, MaxVal, MaxTotal)

\* ======================================================================
\* The collective calls: every rank of the communicator calls the method
\* ======================================================================

\* the locals of a method before any is assigned
NoFrame ==
    [prev |-> EmptyRank, next |-> EmptyRank, N |-> <<>>,
     heads |-> <<>>, tails |-> <<>>, headsN |-> <<>>]

\* no rank has called a method
NotCalled ==
    /\ meth = [r \in Ranks(size) |-> "none"]
    /\ pc = [r \in Ranks(size) |-> "idle"]
    /\ sendbuf = [r \in Ranks(size) |-> EmptyRank]
    /\ frame = [r \in Ranks(size) |-> NoFrame]
    /\ ncoll = [r \in Ranks(size) |-> 0]

\* line 123: LinearTopology(local, comm) keeps the object passed as local
Constructed ==
    /\ tlocal = local
    /\ alias = [r \in Ranks(size) |-> TRUE]

\* DistributedArray(local, comm) constructed on every rank
Init ==
    /\ size \in 1..MaxRanks
    /\ local \in Arrays(size)
    /\ op = "init"
    /\ ret = [r \in Ranks(size) |-> EmptyRank]
    /\ NotCalled
    /\ Constructed

\* d.topology.prev() on every rank
CallPrev ==
    /\ op' = "prev"
    /\ ret' = [r \in Ranks(size) |-> prev(tails(tlocal), r)]
    /\ UNCHANGED <<size, local, tlocal, alias, rankvars>>

\* d.topology.next() on every rank
CallNext ==
    /\ op' = "next"
    /\ ret' = [r \in Ranks(size) |-> next(heads(tlocal), r)]
    /\ UNCHANGED <<size, local, tlocal, alias, rankvars>>

\* unique_labels() writing the labels into self.local
CallUniqueLabelsInPlace ==
    /\ op' = "unique_labels"
    /\ ret' = [r \in Ranks(size) |-> unique_labels(local, r)]
    /\ local' = ret'
    /\ tlocal' = ret'
    /\ UNCHANGED <<size, alias, rankvars>>

\* d.unique_labels() on every rank; ret[r] is the local array of the result
\* (self.topology.local is self.local here: no action of Next rebinds it)
CallUniqueLabels ==
    /\ op' = "unique_labels"
    /\ ret' = [r \in Ranks(size) |-> unique_labels(local, r)]
    /\ UNCHANGED <<size, local, tlocal, alias, rankvars>>

\* d.bincount(local=flag) on every rank
CallBincount(flag) ==
    /\ op' = IF flag THEN "bincount_local" ELSE "bincount"
    /\ ret' = [r \in Ranks(size) |-> bincount(local, r, flag)]
    /\ UNCHANGED <<size, local, tlocal, alias, rankvars>>

Next ==
    \/ CallPrev
    \/ CallNext
    \/ CallUniqueLabels
    \/ \E flag \in BOOLEAN : CallBincount(flag)

Spec == Init /\ [][Next]_vars

\* d.topology.heads() on every rank: one allgather (line 31)
CallHeads ==
    /\ op' = "heads"
    /\ ret' = [r \in Ranks(size) |-> heads(tlocal)]
    /\ ncoll' = [r \in Ranks(size) |-> 1]
    /\ UNCHANGED <<size, local, tlocal, alias, meth, pc, sendbuf, frame>>

\* d.topology.tails() on every rank: one allgather (line 46)
CallTails ==
    /\ op' = "tails"
    /\ ret' = [r \in Ranks(size) |-> tails(tlocal)]
    /\ ncoll' = [r \in Ranks(size) |-> 1]
    /\ UNCHANGED <<size, local, tlocal, alias, meth, pc, sendbuf, frame>>

NextTopology ==
    \/ CallHeads
    \/ CallTails

SpecTopology == Init /\ [][NextTopology]_vars

\* ======================================================================
\* The ranks one by one: each rank is a process of its own that calls a
\* method when it likes and blocks in every comm.allgather until all ranks
\* of the communicator have entered an allgather
\* ======================================================================

\* the allgather call sites: tails() in prev(), heads() in next(), line 165,
\* and lines 206, 207, 210, 210
InAllgather == {"prev_tails", "next_heads", "Nunique", "heads", "tails", "headsN", "tailsN"}

Methods == {"unique_labels", "bincount", "bincount_local"}

InitRanks ==
    /\ size \in 1..MaxProcs
    /\ local \in ArraysOf(size, MaxItem, MaxItems)
    /\ op = "init"
    /\ ret = [r \in Ranks(size) |-> EmptyRank]
    /\ NotCalled
    /\ Constructed

\* rank r calls unique_labels() (m = "unique_labels"), bincount()
\* or bincount(local=True): lines 151 and 192 call self.topology.prev()
\* first, which enters the allgather of tails()
Call(r, m) ==
    /\ pc[r] = "idle"
    /\ meth' = [meth EXCEPT ![r] = m]
    /\ sendbuf' = [sendbuf EXCEPT ![r] = tail_item(local[r])]
    /\ pc' = [pc EXCEPT ![r] = "prev_tails"]
    /\ ncoll' = [ncoll EXCEPT ![r] = 1]
    /\ UNCHANGED <<size, local, tlocal, alias, op, ret, frame>>

\* line 165: sum() of a list that holds the object EmptyRank among its first
\* rank entries raises TypeError (0 + EmptyRank); Nunique is never negative,
\* so an entry EmptyRank in the list gathered is the object and no count
sum_raises(G, rank) == \E i \in 1..rank : G[i] = EmptyRank

\* sum() over the whole list gathered, without the slice [:rank]
sum_raises_unsliced(G, rank) == \E i \in DOMAIN G : G[i] = EmptyRank

\* unique_labels() with the sum of line 165 taken over the whole list
resume_unique_labels_unsliced(r, G) ==
    CASE pc[r] = "prev_tails" ->
            [pc |-> "next_heads", send |-> head_item(local[r]),
             frame |-> [frame[r] EXCEPT !.prev = prev(G, r)], ret |-> ret[r]]
      [] pc[r] = "next_heads" ->
            [pc |-> "Nunique", send |-> Nunique(local[r], next(G, r)),
             frame |-> [frame[r] EXCEPT !.next = next(G, r)], ret |-> ret[r]]
      [] OTHER ->
            IF sum_raises_unsliced(G, r)
            THEN [pc |-> "error", send |-> sendbuf[r], frame |-> frame[r], ret |-> ret[r]]
            ELSE [pc |-> "done", send |-> sendbuf[r], frame |-> frame[r],
                  ret |-> [i \in DOMAIN local[r] |->
                              numpy_inverse(local[r])[i] + SumSeq(G)]]

\* unique_labels() on rank r from the return of an allgather with the list
\* G to the next allgather, the return or the exception: [pc, send, frame, ret]
resume_unique_labels(r, G) ==
    CASE pc[r] = "prev_tails" ->
            \* line 151: prev assigned, next() enters the allgather of heads()
            [pc |-> "next_heads", send |-> head_item(local[r]),
             frame |-> [frame[r] EXCEPT !.prev = prev(G, r)], ret |-> ret[r]]
      [] pc[r] = "next_heads" ->
            \* lines 151-165: next assigned, Nunique computed and gathered
            [pc |-> "Nunique", send |-> Nunique(local[r], next(G, r)),
             frame |-> [frame[r] EXCEPT !.next = next(G, r)], ret |-> ret[r]]
      [] OTHER ->
            \* lines 165-166
            IF sum_raises(G, r)
            THEN [pc |-> "error", send |-> sendbuf[r], frame |-> frame[r], ret |-> ret[r]]
            ELSE [pc |-> "done", send |-> sendbuf[r],
                  frame |-> frame[r], ret |-> labels(local[r], G, r)]

\* bincount() returning the local counts at once on a rank whose chunk is
\* empty
resume_bincount_skip_empty(r, G, flag) ==
    CASE pc[r] = "prev_tails" ->
            LET N == local_counts(local[r], prev(G, r))
                f == [frame[r] EXCEPT !.prev = prev(G, r), !.N = N]
            IN  IF flag \/ local[r] = <<>>
                THEN [pc |-> "done", send |-> sendbuf[r], frame |-> f, ret |-> N]
                ELSE [pc |-> "heads", send |-> head_item(local[r]),
                      frame |-> f, ret |-> ret[r]]
      [] pc[r] = "heads" ->
            [pc |-> "tails", send |-> tail_item(local[r]),
             frame |-> [frame[r] EXCEPT !.heads = G], ret |-> ret[r]]
      [] pc[r] = "tails" ->
            [pc |-> "headsN", send |-> head_item(frame[r].N),
             frame |-> [frame[r] EXCEPT !.tails = G], ret |-> ret[r]]
      [] pc[r] = "headsN" ->
            [pc |-> "tailsN", send |-> tail_item(frame[r].N),
             frame |-> [frame[r] EXCEPT !.headsN = G], ret |-> ret[r]]
      [] OTHER ->
            [pc |-> "done", send |-> sendbuf[r], frame |-> frame[r],
             ret |-> fixup(frame[r].N, local[r], frame[r].heads, frame[r].tails,
                           frame[r].headsN, G, r)]

\* bincount(local=flag) on rank r from the return of an allgather with the
\* list G to the next allgather or the return
resume_bincount(r, G, flag) ==
    CASE pc[r] = "prev_tails" ->
            \* lines 192-206
            LET N == local_counts(local[r], prev(G, r))
                f == [frame[r] EXCEPT !.prev = prev(G, r), !.N = N]
            IN  IF flag
                THEN [pc |-> "done", send |-> sendbuf[r], frame |-> f, ret |-> N]
                ELSE [pc |-> "heads", send |-> head_item(local[r]),
                      frame |-> f, ret |-> ret[r]]
      [] pc[r] = "heads" ->
            \* lines 206-207
            [pc |-> "tails", send |-> tail_item(local[r]),
             frame |-> [frame[r] EXCEPT !.heads = G], ret |-> ret[r]]
      [] pc[r] = "tails" ->
            \* lines 207-210
            [pc |-> "headsN", send |-> head_item(frame[r].N),
             frame |-> [frame[r] EXCEPT !.tails = G], ret |-> ret[r]]
      [] pc[r] = "headsN" ->
            \* line 210
            [pc |-> "tailsN", send |-> tail_item(frame[r].N),
             frame |-> [frame[r] EXCEPT !.headsN = G], ret |-> ret[r]]
      [] OTHER ->
            \* lines 210-220
            [pc |-> "done", send |-> sendbuf[r], frame |-> frame[r],
             ret |-> fixup(frame[r].N, local[r], frame[r].heads, frame[r].tails,
                           frame[r].headsN, G, r)]

resume(r, G) ==
    IF meth[r] = "unique_labels" THEN resume_unique_labels(r, G)
    ELSE resume_bincount(r, G, meth[r] = "bincount_local")

\* every rank is blocked in an allgather: the exchange completes, every rank
\* gets the list of the values passed and runs on to its next allgather or
\* to its return
Exchange ==
    /\ \A r \in Ranks(size) : pc[r] \in InAllgather
    /\ LET G      == allgather(sendbuf)
           nx(r)  == resume(r, G)
       IN  /\ pc' = [r \in Ranks(size) |-> nx(r).pc]
           /\ sendbuf' = [r \in Ranks(size) |-> nx(r).send]
           /\ frame' = [r \in Ranks(size) |-> nx(r).frame]
           /\ ret' = [r \in Ranks(size) |-> nx(r).ret]
           /\ ncoll' = [r \in Ranks(size) |->
                           IF nx(r).pc \in InAllgather THEN ncoll[r] + 1 ELSE ncoll[r]]
    /\ UNCHANGED <<size, local, tlocal, alias, op, meth>>

NextRanks ==
    \/ \E r \in Ranks(size) : \E m \in Methods : Call(r, m)
    \/ Exchange

SpecRanks == InitRanks /\ [][NextRanks]_vars

\* rank r joins the collective call of the method m: the ranks that have
\* called before it have called the same method with the same arguments
CallSame(r, m) ==
    /\ \A q \in Ranks(size) : meth[q] \in {"none", m}
    /\ Call(r, m)

NextSame ==
    \/ \E r \in Ranks(size) : \E m \in Methods : CallSame(r, m)
    \/ Exchange

\* the collective calls, with the guarantee of MPI that an allgather which
\* every rank of the communicator has entered completes (an exchange moves
\* every rank, so it always changes pc)
FairSpecSame == InitRanks /\ [][NextSame]_vars /\ WF_pc(Exchange)

\* ======================================================================
\* DistributedArray.sort on arrays of records with the fields key and value
\* (the dtype of test(), lines 224-225)
\* ======================================================================

Records == [key : 0..MaxItem, value : 0..MaxItem]

RECURSIVE flat(_, _)
\* the chunks loc[r], loc[r+1], ... one after the other
flat(loc, r) == IF r \notin DOMAIN loc THEN <<>> ELSE loc[r] \o flat(loc, r + 1)

\* what mpsort compares of a record: the field orderby, or the whole record
\* (key, then value) for orderby=None
sort_key(rec, orderby) ==
    IF orderby = "None" THEN rec.key * (MaxItem + 1) + rec.value ELSE rec[orderby]

\* the rearrangements of the sequence g that are non-decreasing in orderby
sorted_orders(g, orderby) ==
    LET n     == Len(g)
        perms == { p \in [1..n -> 1..n] : \A i, j \in 1..n : p[i] = p[j] => i = j }
    IN  { h \in { [i \in 1..n |-> g[p[i]]] : p \in perms } :
              \A i \in 1..(n - 1) : sort_key(h[i], orderby) <= sort_key(h[i + 1], orderby) }

\* the cut points of the chunks of loc in the sequence of all its items
cuts_of(loc) ==
    [j \in 1..(Cardinality(DOMAIN loc) - 1) |-> Len(flat([r \in 0..(j - 1) |-> loc[r]], 0))]

\* mpsort.sort(local, orderby), called by every rank: the arrays it may leave
\* in the ranks' local arrays, which it sorts in place; the order of records
\* that compare equal is any
mpsort_sort(loc, orderby) ==
    { striped(h, cuts_of(loc), Cardinality(DOMAIN loc)) :
          h \in sorted_orders(flat(loc, 0), orderby) }

\* sort() dropping its argument: mpsort.sort(self.local)
sort_no_orderby(loc, orderby) == mpsort_sort(loc, "None")

\* line 132
sort(loc, orderby) == mpsort_sort(loc, orderby)

\* the arrays of at most MaxItems records in any order on n ranks
RecordArrays(n) ==
    UNION { { striped(g, k, n) : k \in Cuts(n, Len(g)) } :
                g \in UNION { [1..len -> Records] : len \in 0..MaxItems } }

InitSort ==
    /\ size \in 1..MaxProcs
    /\ local \in RecordArrays(size)
    /\ op = "init"
    /\ ret = [r \in Ranks(size) |-> EmptyRank]
    /\ NotCalled
    /\ Constructed

\* d.sort(orderby) on every rank: self.local is sorted in place, and
\* self.topology.local with it while it is the same object
Sort(orderby) ==
    /\ \E res \in sort(local, orderby) :
          /\ local' = res
          /\ tlocal' = [r \in Ranks(size) |-> IF alias[r] THEN res[r] ELSE tlocal[r]]
    /\ op' = IF orderby = "key" THEN "sort_key" ELSE "sort_value"
    /\ UNCHANGED <<size, alias, ret, rankvars>>

NextSort == \E orderby \in {"key", "value"} : Sort(orderby)

SpecSort == InitSort /\ [][NextSort]_vars

\* ======================================================================
\* The local array changing under the topology: self.local is a public
\* attribute holding a mutable array, and self.topology keeps the object
\* that was passed to the constructor (lines 14 and 123)
\* ======================================================================

\* the arrays a caller may bind to d.local on one rank
Chunks == UNION { [1..len -> 0..MaxItem] : len \in 0..MaxItems }

InitMut ==
    /\ size \in 1..MaxMutRanks
    /\ local \in ArraysOf(size, MaxItem, MaxItems)
    /\ op = "init"
    /\ ret = [r \in Ranks(size) |-> EmptyRank]
    /\ NotCalled
    /\ Constructed

\* d.local = chunk on rank r: self.local is bound to another array, and
\* self.topology.local stays bound to the array it was constructed with
Replace(r, chunk) ==
    /\ local' = [local EXCEPT ![r] = chunk]
    /\ alias' = [alias EXCEPT ![r] = FALSE]
    /\ op' = "replace"
    /\ ret' = [q \in Ranks(size) |-> EmptyRank]
    /\ UNCHANGED <<size, tlocal, rankvars>>

\* d.local[i] = v on rank r: the array is written in place, and
\* self.topology.local with it while it is the same object
Write(r, i, v) ==
    /\ i \in DOMAIN local[r]
    /\ local' = [local EXCEPT ![r][i] = v]
    /\ tlocal' = [tlocal EXCEPT ![r] = IF alias[r] THEN local'[r] ELSE @]
    /\ op' = "write"
    /\ ret' = [q \in Ranks(size) |-> EmptyRank]
    /\ UNCHANGED <<size, alias, rankvars>>

\* mpsort.sort(local, None) on arrays of integers: the items in
\* non-decreasing order, every rank keeping the length of its array
mpsort_sort_items(loc) ==
    LET g == flat(loc, 0)
        n == Len(g)
        h == CHOOSE f \in [1..n -> 0..MaxItem] :
                 /\ \A i \in 1..(n - 1) : f[i] <= f[i + 1]
                 /\ \A v \in 0..MaxItem :
                       Cardinality({i \in 1..n : f[i] = v}) =
                       Cardinality({i \in 1..n : g[i] = v})
    IN  striped(h, cuts_of(loc), Cardinality(DOMAIN loc))

\* d.sort() on every rank, in place
SortItems ==
    /\ local' = mpsort_sort_items(local)
    /\ tlocal' = [r \in Ranks(size) |-> IF alias[r] THEN local'[r] ELSE tlocal[r]]
    /\ op' = "sort"
    /\ ret' = [q \in Ranks(size) |-> EmptyRank]
    /\ UNCHANGED <<size, alias, rankvars>>

NextMut ==
    \/ \E r \in Ranks(size) : \E chunk \in Chunks : Replace(r, chunk)
    \/ \E r \in Ranks(size) : \E i \in 1..MaxItems : \E v \in 0..MaxItem : Write(r, i, v)
    \/ SortItems
    \/ CallHeads
    \/ CallTails
    \/ CallPrev
    \/ CallNext

SpecMut == InitMut /\ [][NextMut]_vars

\* ======================================================================
\* Properties
\* ======================================================================

\* the ranks of the communicator
AllRanks == Ranks(size)

\* the ranks that hold data
NonEmpty == { q \in AllRanks : local[q] # <<>> }

MinRank(S) == CHOOSE x \in S : \A y \in S : x <= y

MaxRank(S) == CHOOSE x \in S : \A y \in S : y <= x

\* the item that follows rank r's chunk in the global order
ItemAfter(r) ==
    LET above == { q \in NonEmpty : q > r }
    IN  IF above = {} THEN EmptyRank ELSE head_item(local[MinRank(above)])

\* the item that precedes rank r's chunk in the global order
ItemBefore(r) ==
    LET below == { q \in NonEmpty : q < r }
    IN  IF below = {} THEN EmptyRank ELSE tail_item(local[MaxRank(below)])

\* C1: next() on rank r returns the first item of the lowest-indexed
\* non-empty rank above r, and EmptyRank exactly when no rank above r holds
\* data.
C1_NextIsNearestHead ==
    op = "next" => \A r \in AllRanks : ret[r] = ItemAfter(r)

\* C2: prev() on rank r returns the last item of the highest-indexed
\* non-empty rank below r, and EmptyRank exactly when no rank below r holds
\* data.
C2_PrevIsNearestTail ==
    op = "prev" => \A r \in AllRanks : ret[r] = ItemBefore(r)

\* prev() has skipped an empty rank to reach a rank that holds data, and has
\* returned EmptyRank on a rank with only empty ranks below it
C2_Witness ==
    /\ op = "prev"
    /\ \E r \in AllRanks :
          /\ r >= 2
          /\ local[r - 1] = <<>>
          /\ local[r - 2] # <<>>
          /\ ret[r] = tail_item(local[r - 2])
    /\ \E r \in AllRanks : r >= 1 /\ local[r] # <<>> /\ ret[r] = EmptyRank

\* C3: unique_labels() on a globally sorted array gives equal items the same
\* label wherever they are stored, across rank boundaries and empty ranks.
C3_EqualItemsSameLabel ==
    op = "unique_labels" =>
        \A r, q \in AllRanks : \A i \in DOMAIN local[r] : \A j \in DOMAIN local[q] :
            local[r][i] = local[q][j] => ret[r][i] = ret[q][j]

\* C4: unique_labels() on a globally sorted array never gives two different
\* values the same label.
C4_SameLabelEqualItems ==
    op = "unique_labels" =>
        \A r, q \in AllRanks : \A i \in DOMAIN local[r] : \A j \in DOMAIN local[q] :
            ret[r][i] = ret[q][j] => local[r][i] = local[q][j]

RECURSIVE Concat(_, _)
\* the per-rank arrays f[r], ..., f[size-1] read in rank order
Concat(f, r) == IF r >= size THEN <<>> ELSE f[r] \o Concat(f, r + 1)

\* C5: the labels of unique_labels(), read in global order, start at 0 on
\* the first rank that holds data and go up in steps of 0 or 1.
C5_LabelsDense ==
    op = "unique_labels" =>
        LET L == Concat(ret, 0)
        IN  /\ L # <<>> => L[1] = 0
            /\ \A i \in 1..(Len(L) - 1) : L[i + 1] - L[i] \in {0, 1}

\* labels were given to an array with an empty rank between two ranks that
\* hold data, and both a repeated and a new label occur
C5_Witness ==
    /\ op = "unique_labels"
    /\ \E r \in AllRanks :
          /\ local[r] = <<>>
          /\ \E q \in NonEmpty : q < r
          /\ \E q \in NonEmpty : q > r
    /\ LET L == Concat(ret, 0)
       IN  /\ \E i \in 1..(Len(L) - 1) : L[i + 1] = L[i]
           /\ \E i \in 1..(Len(L) - 1) : L[i + 1] = L[i] + 1
    /\ \E r \in NonEmpty : r > MinRank(NonEmpty) /\ ret[r][1] > 0

\* the number of items of value v in the whole array
GlobalCount(v) ==
    Cardinality({ <<r, i>> \in AllRanks \X (1..MaxTotal) :
                      i \in DOMAIN local[r] /\ local[r][i] = v })

\* the ranks that hold an item of value v
Holders(v) == { r \in AllRanks : \E i \in DOMAIN local[r] : local[r][i] = v }

\* the entry for value v of the count array bincount() returned on rank r
\* (entry j of that array counts the value offset + j), 0 if it has none
CountFor(r, v) ==
    LET j == v - offset(local[r], prev(tails(local), r)) + 1
    IN  IF j \in DOMAIN ret[r] THEN ret[r][j] ELSE 0

\* the count arrays of all ranks summed, aligned by value
SumOverRanks(v) == SumSeq([k \in 1..size |-> CountFor(k - 1, v)])

\* C6 as stated: the count arrays of the global bincount() summed over all
\* ranks give, for every value, the number of items of that value.
C6_SumIsGlobalCount ==
    op = "bincount" => \A v \in Values : SumOverRanks(v) = GlobalCount(v)

\* C6 amended: the sum over all ranks is, for every value, the number of
\* items of that value times the number of ranks that hold the value.
C6_SumIsCountTimesHolders ==
    op = "bincount" =>
        \A v \in Values : SumOverRanks(v) = GlobalCount(v) * Cardinality(Holders(v))

\* the global bincount() ran on an array with a value held by three ranks and
\* a value held by one
C6_Witness ==
    /\ op = "bincount"
    /\ \E v \in Values : Cardinality(Holders(v)) >= 3 /\ SumOverRanks(v) > GlobalCount(v)
    /\ \E v \in Values : Cardinality(Holders(v)) = 1 /\ SumOverRanks(v) = GlobalCount(v)

\* C7: the global bincount() returns on every rank, for every value the rank
\* holds, the number of items of that value in the whole array.
C7_EveryRankGlobalCount ==
    op = "bincount" =>
        \A r \in AllRanks : \A i \in DOMAIN local[r] :
            CountFor(r, local[r][i]) = GlobalCount(local[r][i])

\* the run of one value over three ranks with an empty rank in it:
\* [1], [], [1], [1,1] counted as [0,4], [], [4], [4]
C7_Witness ==
    /\ op = "bincount"
    /\ size = 4
    /\ local = [r \in 0..3 |-> IF r = 1 THEN <<>> ELSE IF r = 3 THEN <<1, 1>> ELSE <<1>>]
    /\ ret[0] = <<0, 4>>
    /\ ret[1] = <<>>
    /\ ret[2] = <<4>>
    /\ ret[3] = <<4>>

\* C9: what bincount(local=True) returns on a rank is determined by that
\* rank's chunk: on every array in which the rank holds the same chunk, it
\* returns the same count array.
C9_LocalCountOwnChunkOnly ==
    op = "bincount_local" =>
        \A other \in Arrays(size) : \A r \in AllRanks :
            other[r] = local[r] => bincount(other, r, TRUE) = ret[r]

\* the chunks have sizes [0,2,0,3] on 4 ranks
Sizes0203 ==
    /\ size = 4
    /\ Len(local[0]) = 0
    /\ Len(local[1]) = 2
    /\ Len(local[2]) = 0
    /\ Len(local[3]) = 3

\* C10 as stated: with sizes [0,2,0,3], prev() on rank 2 is the last item of
\* rank 1, next() on rank 0 is the first item of rank 3, prev() on rank 0
\* and next() on rank 3 are EmptyRank.
C10_NextOfRank0IsHeadOfRank3 ==
    Sizes0203 =>
        /\ op = "prev" => ret[2] = tail_item(local[1]) /\ ret[0] = EmptyRank
        /\ op = "next" => ret[0] = head_item(local[3]) /\ ret[3] = EmptyRank

\* C10 amended: next() on rank 0 is the first item of rank 1, the nearest
\* rank above rank 0 that holds data; the rest as stated.
C10_NextOfRank0IsHeadOfRank1 ==
    Sizes0203 =>
        /\ op = "prev" => ret[2] = tail_item(local[1]) /\ ret[0] = EmptyRank
        /\ op = "next" => ret[0] = head_item(local[1]) /\ ret[3] = EmptyRank

\* next() ran on chunks of sizes [0,2,0,3] whose ranks 1 and 3 start with
\* different items
C10_Witness ==
    /\ Sizes0203
    /\ op = "next"
    /\ head_item(local[1]) # head_item(local[3])
    /\ ret[0] = head_item(local[1])
    /\ ret[3] = EmptyRank

\* the ranks that have called a method
Called == { r \in AllRanks : meth[r] # "none" }

\* when every rank has called the same method and returned, it has returned
\* what the collective call of that method returns
StepwiseAgrees ==
    \A m \in Methods :
        (\A r \in AllRanks : meth[r] = m /\ pc[r] = "done") =>
            \A r \in AllRanks :
                ret[r] = IF m = "unique_labels" THEN unique_labels(local, r)
                         ELSE bincount(local, r, m = "bincount_local")

\* C8: a rank that calls bincount(local=True) enters no allgather and so
\* never waits for another rank.
C8_LocalEntersNoAllgather ==
    \A r \in AllRanks :
        meth[r] = "bincount_local" => ncoll[r] = 0 /\ pc[r] \notin InAllgather

\* C11: heads() and tails() each enter one allgather and return on every
\* rank the same list of length size, whose entry for rank i is rank i's
\* first (last) item when its chunk holds data and EmptyRank exactly when
\* its chunk is empty.
C11_HeadsTailsLists ==
    op \in {"heads", "tails"} =>
        \A r \in AllRanks :
            /\ ncoll[r] = 1
            /\ Len(ret[r]) = size
            /\ ret[r] = ret[0]
            /\ \A i \in AllRanks :
                  /\ ret[r][i + 1] = EmptyRank <=> local[i] = <<>>
                  /\ local[i] # <<>> =>
                        ret[r][i + 1] = IF op = "heads" THEN local[i][1]
                                        ELSE local[i][Len(local[i])]

\* tails() ran on an array with an empty rank and with a rank whose last
\* item is not its first
C11_Witness ==
    /\ op = "tails"
    /\ \E i \in AllRanks : local[i] = <<>> /\ ret[0][i + 1] = EmptyRank
    /\ \E i \in AllRanks :
          /\ local[i] # <<>>
          /\ local[i][1] # local[i][Len(local[i])]
          /\ ret[size - 1][i + 1] = local[i][Len(local[i])]

\* the field the last sort() ordered by, after the step
SortedBy == IF op' = "sort_key" THEN "key" ELSE "value"

\* the sequence of all items of loc is non-decreasing in the field k
IsSorted(loc, k) ==
    LET g == flat(loc, 0)
    IN  \A i \in 1..(Len(g) - 1) : g[i][k] <= g[i + 1][k]

\* the number of records equal to rec in loc
Occurrences(loc, rec) ==
    LET g == flat(loc, 0)
    IN  Cardinality({ i \in DOMAIN g : g[i] = rec })

\* C12: after every rank has called sort(key), the chunks in rank order are
\* non-decreasing in key and hold the same multiset of records as before.
C12_SortPostcondition ==
    [][op' \in {"sort_key", "sort_value"} =>
          /\ IsSorted(local', SortedBy)
          /\ \A rec \in Records : Occurrences(local', rec) = Occurrences(local, rec)]_vars

\* sort('value') has left records on two ranks, in an order that is not the
\* order of their keys
C12_Witness ==
    /\ op = "sort_value"
    /\ \E r, q \in AllRanks : r < q /\ local[r] # <<>> /\ local[q] # <<>>
    /\ ~IsSorted(local, "key")
    /\ IsSorted(local, "value")

\* C13 as stated: sort(key) on an array already sorted by key leaves every
\* rank's chunk and the order of the records in it unchanged, also when
\* records share a key.
C13_SortedStaysAsIs ==
    [][(op' \in {"sort_key", "sort_value"} /\ IsSorted(local, SortedBy)) =>
          local' = local]_vars

\* the keys of the records of loc, chunk by chunk
FieldOf(loc, k) == [r \in DOMAIN loc |-> [i \in DOMAIN loc[r] |-> loc[r][i][k]]]

\* no two records of loc have the same value of the field k
NoTies(loc, k) ==
    LET g == flat(loc, 0)
    IN  \A i, j \in DOMAIN g : g[i][k] = g[j][k] => i = j

\* C13 amended: sort(key) on an array already sorted by key leaves the keys
\* of every rank's chunk unchanged, and the records too when no two records
\* share a key.
C13_SortedKeepsKeys ==
    [][(op' \in {"sort_key", "sort_value"} /\ IsSorted(local, SortedBy)) =>
          /\ FieldOf(local', SortedBy) = FieldOf(local, SortedBy)
          /\ NoTies(local, SortedBy) => local' = local]_vars

\* sort('key') has left two records that share a key and differ in value
C13_Witness ==
    /\ op = "sort_key"
    /\ LET g == flat(local, 0)
       IN  \E i \in 1..(Len(g) - 1) :
               g[i].key = g[i + 1].key /\ g[i].value # g[i + 1].value

\* C14: unique_labels() and bincount(), local or global, leave the local
\* array of every rank as it was: the labels and counts are new arrays.
C14_SourceUnchanged ==
    [][op' \in {"unique_labels", "bincount", "bincount_local"} =>
          local' = local /\ tlocal' = tlocal]_vars

\* unique_labels() and bincount() have returned arrays that differ from the
\* local array they were computed from
C14_Witness ==
    /\ op \in {"unique_labels", "bincount"}
    /\ \E r \in AllRanks : Len(local[r]) >= 2 /\ local[r][1] = 1 /\ ret[r] # local[r]
    /\ tlocal = local

\* no empty rank lies between two ranks that hold data
Contiguous ==
    \A r \in AllRanks :
        local[r] = <<>> => ~((\E q \in NonEmpty : q < r) /\ (\E q \in NonEmpty : q > r))

\* the values of the whole array that are smaller than v
SmallerValues(v) ==
    { w \in Values : w < v /\ \E r \in AllRanks : \E i \in DOMAIN local[r] : local[r][i] = w }

\* C16: when the ranks that hold data are contiguous, unique_labels() gives
\* every item the number of distinct values of the whole array that are
\* smaller than it.
C16_ContiguousLabelsExact ==
    (op = "unique_labels" /\ Contiguous) =>
        \A r \in AllRanks : \A i \in DOMAIN local[r] :
            ret[r][i] = Cardinality(SmallerValues(local[r][i]))

\* labels were given to a contiguous block of ranks with empty ranks on both
\* sides and a value whose run crosses a rank boundary
C16_Witness ==
    /\ op = "unique_labels"
    /\ Contiguous
    /\ local[0] = <<>>
    /\ local[size - 1] = <<>>
    /\ \E r \in AllRanks :
          /\ r + 1 \in NonEmpty
          /\ r \in NonEmpty
          /\ tail_item(local[r]) = head_item(local[r + 1])
          /\ ret[r + 1][1] = 1
          /\ ret[r][1] = 0

\* every rank has called the method m
SameCall(m) == \A r \in AllRanks : meth[r] = m

\* the allgathers a rank enters in a call of the method m
GathersOf(m) ==
    IF m = "unique_labels" THEN 3 ELSE IF m = "bincount" THEN 5 ELSE 1

\* C15: when every rank calls the same method with the same arguments, the
\* ranks are at the same allgather at all times, have entered the same
\* number of allgathers whatever their chunks hold, and every rank returns.
C15_SameCallReturns ==
    /\ [](\A m \in Methods : SameCall(m) =>
             \A r \in AllRanks :
                 /\ pc[r] = pc[0]
                 /\ ncoll[r] = ncoll[0]
                 /\ pc[r] # "error"
                 /\ pc[r] = "done" => ncoll[r] = GathersOf(m))
    /\ \A m \in Methods :
          (SameCall(m) ~> \A r \in AllRanks : pc[r] = "done")

\* every rank has returned from bincount(), one of them with an empty chunk
C15_Witness ==
    /\ SameCall("bincount")
    /\ size >= 2
    /\ \E r \in AllRanks : local[r] = <<>>
    /\ \E r \in AllRanks : Len(local[r]) >= 2
    /\ \A r \in AllRanks : pc[r] = "done" /\ ncoll[r] = 5

\* a rank that waits in an allgather stays in it over every step in which
\* some rank is outside the allgathers and does not enter one
WaitersStay ==
    \A r \in AllRanks :
        (/\ pc[r] \in InAllgather
         /\ \E q \in AllRanks : pc[q] \notin InAllgather /\ pc'[q] \notin InAllgather)
            => pc'[r] = pc[r]

\* the ranks below r that called bincount() on an empty chunk
EmptyBincountBelow(r) ==
    { q \in AllRanks : q < r /\ meth[q] = "bincount" /\ local[q] = <<>> }

C17_TopologyNeverStale ==
    \A r \in AllRanks :
        /\ op = "heads" => ret[r] = heads(local)
        /\ op = "tails" => ret[r] = tails(local)
        /\ op = "prev" => ret[r] = prev(tails(local), r)
        /\ op = "next" => ret[r] = next(heads(local), r)

====
